---- MODULE Spec2Model ----
(***************************************************************************)
(* snapshot2stream: the frame pipeline of src/main.go (and its refactored  *)
(* copy src/internal/frame/frame.go).                                      *)
(*                                                                         *)
(* One Fetcher goroutine per camera polls a snapshot URL, validates the    *)
(* body and stores it in the camera's ring buffer (CameraCache) under the  *)
(* cache's RWMutex.  One Stream Server goroutine per connected client      *)
(* calls getNextFrame on the cache and writes the frame as one multipart   *)
(* part to its client.  getLatestFrame has no caller in the repository; a  *)
(* caller task ("probe") stands for any goroutine that calls it.           *)
(*                                                                         *)
(* Every goroutine is modelled at the granularity of its blocking points:  *)
(* the network call, the mutex acquisition, the critical section, each     *)
(* write to the client, the flush and the sleeps are separate steps.       *)
(***************************************************************************)
EXTENDS Integers, Sequences, FiniteSets, TLC

(***************************************************************************)
(* Bounds of the model.                                                    *)
(***************************************************************************)
\* Caches are built with every capacity in 1..MaxSize.
MaxSize == 3
\* A cache of capacity N takes at most N + MaxLap writes, so the write
\* cursor can pass a read cursor that stands still by MaxLap slots.
MaxLap == 2

(***************************************************************************)
(* Program constants.                                                      *)
(***************************************************************************)
\* isValidJPEG: "if len(data) < 10"
MinMarkerLen == 10
\* isValidJPEG: "if len(data) < 1000"
MinJPEGLen == 1000
\* isValidJPEG: the bytes 0xFF, 0xD8 and 0xD9
ByteFF == 255
ByteD8 == 216
ByteD9 == 217
\* main: newCameraCache(10)
RingSize == 10
\* http.StatusOK
StatusOK == 200
\* http.StatusInternalServerError
StatusInternalServerError == 500
\* config.Server: envDefault of FPS and of FETCH_FPS
DefaultFPS == 10
DefaultFetchFPS == 30
\* "1000/cfg.Server.FPS": the milliseconds of a second
MillisPerSecond == 1000

(***************************************************************************)
(* Go's % on int: the remainder of the division truncated toward zero,     *)
(* which has the sign of the dividend.                                     *)
(***************************************************************************)
GoMod(a, b) == IF a >= 0 THEN a % b ELSE 0 - ((0 - a) % b)

(***************************************************************************)
(* Byte buffers.  A buffer is head ++ (fill zero bytes) ++ tail: a concrete*)
(* []byte whose interior, which no code of the pipeline inspects, is zero. *)
(* BodyLen is len(data) and ByteAt is data[i] (0-based) of that buffer.    *)
(***************************************************************************)
Buffer(head, fill, tail) == [head |-> head, fill |-> fill, tail |-> tail]

BodyLen(b) == Len(b.head) + b.fill + Len(b.tail)

ByteAt(b, i) ==
    IF i < Len(b.head) THEN b.head[i + 1]
    ELSE IF i < Len(b.head) + b.fill THEN 0
    ELSE b.tail[i - Len(b.head) - b.fill + 1]

EmptyBody == Buffer(<<>>, 0, <<>>)

\* A buffer of n >= 4 bytes with the given first two and last two bytes.
Marked(n, b0, b1, y0, y1) == Buffer(<<b0, b1>>, n - 4, <<y0, y1>>)

Jpeg(n) == Marked(n, ByteFF, ByteD8, ByteFF, ByteD9)

\* Bodies a camera answers a snapshot request with: nothing, a 5-byte
\* stub, well-marked images below and at the size threshold, and images of
\* full size with a wrong first or last marker.  OneImage has one body the
\* validator accepts, TwoImages a second one of another length.
OneImage ==
    { EmptyBody,
      Buffer(<<ByteFF, ByteD8>>, 1, <<ByteFF, ByteD9>>),
      Jpeg(MinJPEGLen - 1),
      Jpeg(MinJPEGLen),
      Marked(2 * MinJPEGLen, 0, ByteD8, ByteFF, ByteD9),
      Marked(2 * MinJPEGLen, ByteFF, ByteD8, ByteFF, 0) }

TwoImages == OneImage \cup {Jpeg(MinJPEGLen + 1)}

\* Mutant: the size check at the end is missing.
isValidJPEG_NoMinSize(data) ==
    IF BodyLen(data) < MinMarkerLen THEN FALSE
    ELSE IF ByteAt(data, 0) # ByteFF \/ ByteAt(data, 1) # ByteD8 THEN FALSE
    ELSE IF \/ ByteAt(data, BodyLen(data) - 2) # ByteFF
            \/ ByteAt(data, BodyLen(data) - 1) # ByteD9 THEN FALSE
    ELSE TRUE

isValidJPEG(data) ==
    IF BodyLen(data) < MinMarkerLen THEN FALSE
    ELSE IF ByteAt(data, 0) # ByteFF \/ ByteAt(data, 1) # ByteD8 THEN FALSE
    ELSE IF \/ ByteAt(data, BodyLen(data) - 2) # ByteFF
            \/ ByteAt(data, BodyLen(data) - 1) # ByteD9 THEN FALSE
    ELSE IF BodyLen(data) < MinJPEGLen THEN FALSE
    ELSE TRUE

(***************************************************************************)
(* Responses of client.GetStream: (resp, err).                             *)
(***************************************************************************)
Responses(bodies) ==
    [err : BOOLEAN, status : {StatusOK, StatusInternalServerError},
     body : bodies]

(***************************************************************************)
(* Frames and caches.                                                      *)
(***************************************************************************)
\* The nil *Frame: an empty slot, and the "no frame" result of the getters.
Nil == [nil |-> TRUE]

\* &Frame{data: ..., timestamp: ...}
Frame(ts, data) == [timestamp |-> ts, data |-> data]

Cameras == {"rua", "piscina"}
Clients == {"c1", "c2"}

\* newCameraCache(size): size nil slots (slot i of the Go slice is
\* frames[i], 0-based), both cursors 0.
newCameraCache(size) ==
    [frames |-> [i \in 0..(size - 1) |-> Nil],
     writeIndex |-> 0,
     readIndex |-> 0,
     size |-> size]

\* The RWMutex of a cache: the goroutine holding it for writing (Lock) and
\* the goroutines holding it for reading (RLock).
NoHolder == "none"
Unlocked == [writer |-> NoHolder, readers |-> {}]

VARIABLES
    cams,       \* the cameras of the registry that have a Fetcher running
    caches,     \* FrameManager.caches: camera -> CameraCache
    mu,         \* camera -> state of CameraCache.mu
    now,        \* camera -> time.Now() of the last write (0: never written)
    written,    \* camera -> the frames stored in the cache so far, in order
    upstream,   \* camera -> the bodies the camera's snapshot URL answers with
    fpc,        \* camera -> position of the camera's Fetcher
    fbody,      \* camera -> body the Fetcher validated and is about to store
    camOf,      \* client -> camera whose endpoint the client requested
    pc,         \* client -> position of the client's Stream Server
    frame,      \* client -> the server's local "frame" of this iteration
    lastTs,     \* client -> timestamp of the frame of the previous iteration
    sink,       \* client -> what the server wrote for the last part it began
    ctxDone,    \* client -> r.Context() is done (the client disconnected)
    ppc,        \* camera -> position of the caller of getLatestFrame
    latestRet,  \* camera -> what getLatestFrame returned to that caller
    cfg,        \* cfg.Server: FPS, FetchFPS and UseCache
    flusher,    \* client -> the client's ResponseWriter is an http.Flusher
    body,       \* client -> the "body" of this iteration of a direct server
    fmDone,     \* fm.ctx is done (fm.cancel was called)
    tickC,      \* camera -> a tick waits in the channel ticker.C
    vdata,      \* the buffer handed to a call of isValidJPEG
    vret,       \* what that call returned ("none": it has not returned)
    advances,   \* history: camera -> times getNextFrame advanced readIndex
    delivered   \* history: camera -> timestamps getNextFrame has returned

vars ==
    <<cams, upstream, caches, mu, now, written, fpc, fbody, camOf, pc, frame,
      lastTs, sink, ctxDone, ppc, latestRet, cfg, flusher, body, fmDone,
      tickC, vdata, vret, advances, delivered>>

cacheVars == <<caches, mu, now, written>>
fetcherVars == <<fpc, fbody>>
serverVars == <<pc, frame, lastTs, sink, ctxDone, body>>
probeVars == <<ppc, latestRet>>
setupVars == <<cams, upstream, camOf, cfg, flusher>>
shutdownVars == <<fmDone, tickC>>
validatorVars == <<vdata, vret>>
historyVars == <<advances, delivered>>

(***************************************************************************)
(* The mutex.                                                              *)
(***************************************************************************)
CanLock(m) == m.writer = NoHolder /\ m.readers = {}
CanRLock(m) == m.writer = NoHolder

\* Mutant: one mutex for the whole registry.
Lock_Registry(cam, who) ==
    /\ \A other \in Cameras : CanLock(mu[other])
    /\ mu' = [mu EXCEPT ![cam].writer = who]

Lock(cam, who) ==
    /\ CanLock(mu[cam])
    /\ mu' = [mu EXCEPT ![cam].writer = who]

Unlock(cam, who) ==
    /\ mu[cam].writer = who
    /\ mu' = [mu EXCEPT ![cam].writer = NoHolder]

RLock(cam, who) ==
    /\ CanRLock(mu[cam])
    /\ mu' = [mu EXCEPT ![cam].readers = @ \cup {who}]

RUnlock(cam, who) ==
    /\ who \in mu[cam].readers
    /\ mu' = [mu EXCEPT ![cam].readers = @ \ {who}]

(***************************************************************************)
(* The critical sections, as functions of the cache.                       *)
(***************************************************************************)
\* Mutant: the cursor advances before the store.
WriteFrame_AdvanceFirst(cache, newFrame) ==
    [cache EXCEPT
        !.frames[GoMod(cache.writeIndex + 1, cache.size)] = newFrame,
        !.writeIndex = GoMod(cache.writeIndex + 1, cache.size)]

\* Mutant: a full ring drops the new frame instead of overwriting.
WriteFrame_NoOverwrite(cache, newFrame) ==
    IF cache.frames[cache.writeIndex] # Nil
    THEN cache
    ELSE [cache EXCEPT
             !.frames[cache.writeIndex] = newFrame,
             !.writeIndex = GoMod(cache.writeIndex + 1, cache.size)]

\* Mutant: the cursor advances by two.
WriteFrame_AdvanceTwo(cache, newFrame) ==
    [cache EXCEPT !.frames[cache.writeIndex] = newFrame,
                  !.writeIndex = GoMod(cache.writeIndex + 2, cache.size)]

\* fetchFrame, "Add to ring buffer".
WriteFrame(cache, newFrame) ==
    [cache EXCEPT !.frames[cache.writeIndex] = newFrame,
                  !.writeIndex = GoMod(cache.writeIndex + 1, cache.size)]

\* Mutant: one slot too far back.
LatestIndex_OffByOne(cache) ==
    GoMod(cache.writeIndex - 2 + cache.size, cache.size)

\* Mutant: without "+ cache.size".
LatestIndex_NoOffset(cache) == GoMod(cache.writeIndex - 1, cache.size)

\* latestIndex of getLatestFrame and getNextFrame.
LatestIndex(cache) ==
    GoMod(cache.writeIndex - 1 + cache.size, cache.size)

\* Mutant: the slot at writeIndex, the next to be overwritten.
GetLatestFrame_AtWriteIndex(cache) == cache.frames[cache.writeIndex]

\* getLatestFrame's result.
GetLatestFrame(cache) == cache.frames[LatestIndex(cache)]

\* Mutant: the advancing branch moves the cursor by two.
GetNextFrame_AdvanceTwo(cache) ==
    IF cache.readIndex = cache.writeIndex
    THEN [ret |-> cache.frames[LatestIndex(cache)], cache |-> cache]
    ELSE [ret |-> cache.frames[cache.readIndex],
          cache |-> [cache EXCEPT
                        !.readIndex =
                            GoMod(cache.readIndex + 2, cache.size)]]

\* Mutant: the advancing branch returns the frame and leaves the cursor.
GetNextFrame_NoAdvance(cache) ==
    IF cache.readIndex = cache.writeIndex
    THEN [ret |-> cache.frames[LatestIndex(cache)], cache |-> cache]
    ELSE [ret |-> cache.frames[cache.readIndex], cache |-> cache]

\* Mutant: no caught-up check, the cursor always advances.
GetNextFrame_AlwaysAdvance(cache) ==
    [ret |-> cache.frames[cache.readIndex],
     cache |-> [cache EXCEPT
                   !.readIndex = GoMod(cache.readIndex + 1, cache.size)]]

\* Mutant: the caught-up branch returns the slot at readIndex.
GetNextFrame_CaughtUpAtReadIndex(cache) ==
    IF cache.readIndex = cache.writeIndex
    THEN [ret |-> cache.frames[cache.readIndex], cache |-> cache]
    ELSE [ret |-> cache.frames[cache.readIndex],
          cache |-> [cache EXCEPT
                        !.readIndex =
                            GoMod(cache.readIndex + 1, cache.size)]]

\* getNextFrame's result and the cache it leaves.
GetNextFrame(cache) ==
    IF cache.readIndex = cache.writeIndex
    THEN [ret |-> cache.frames[LatestIndex(cache)], cache |-> cache]
    ELSE [ret |-> cache.frames[cache.readIndex],
          cache |-> [cache EXCEPT
                        !.readIndex =
                            GoMod(cache.readIndex + 1, cache.size)]]

\* config.NewConfig with no variable of the environment set.
DefaultConfig ==
    [FPS |-> DefaultFPS, FetchFPS |-> DefaultFetchFPS, UseCache |-> TRUE]

(***************************************************************************)
(* Init: the state after main has built the registry and started the       *)
(* Fetchers, with both clients connected to camera "rua" and their Stream  *)
(* Servers at the top of the loop, under the default configuration.        *)
(***************************************************************************)
\* The pipeline before any step: the configuration is one of configs and
\* each client's writer is as one of flushers says, the cameras of running
\* have a Fetcher when the cache is enabled, the Fetchers stand at fat and
\* the handlers at at, and the clients requested the endpoints one of
\* endpoints names.
InitAt(running, sizes, bodies, configs, flushers, fat, at, endpoints) ==
    /\ cfg \in configs
    /\ flusher \in flushers
    /\ cams = IF cfg.UseCache THEN running ELSE {}
    /\ upstream = [cam \in Cameras |-> bodies]
    /\ \E size \in sizes : caches = [cam \in Cameras |-> newCameraCache(size)]
    /\ mu = [cam \in Cameras |-> Unlocked]
    /\ now = [cam \in Cameras |-> 0]
    /\ written = [cam \in Cameras |-> <<>>]
    /\ fpc = [cam \in Cameras |-> fat]
    /\ fbody = [cam \in Cameras |-> EmptyBody]
    /\ camOf \in endpoints
    /\ pc = [c \in Clients |-> at]
    /\ frame = [c \in Clients |-> Nil]
    /\ lastTs = [c \in Clients |-> 0]
    /\ sink = [c \in Clients |-> <<>>]
    /\ ctxDone = [c \in Clients |-> FALSE]
    /\ ppc = [cam \in Cameras |-> "idle"]
    /\ latestRet = [cam \in Cameras |-> Nil]
    /\ body = [c \in Clients |-> EmptyBody]
    /\ fmDone = FALSE
    /\ tickC = [cam \in Cameras |-> FALSE]
    /\ advances = [cam \in Cameras |-> 0]
    /\ delivered = [cam \in Cameras |-> {}]

\* Both clients requested the endpoint of camera "rua".
InitCore(running, sizes, bodies, configs, flushers, fat, at) ==
    InitAt(running, sizes, bodies, configs, flushers, fat, at,
           {[c \in Clients |-> "rua"]})

\* Every client's ResponseWriter is an http.Flusher.
AllFlush == {[c \in Clients |-> TRUE]}

\* The default configuration, the Fetchers at their select and the servers
\* at the top of the cached loop; no call of isValidJPEG is under
\* observation.
InitWith(running, sizes, bodies) ==
    /\ InitCore(running, sizes, bodies, {DefaultConfig}, AllFlush,
                "select", "select")
    /\ vdata = EmptyBody
    /\ vret = "none"

Init == InitWith({"rua"}, 1..MaxSize, OneImage)

(***************************************************************************)
(* The Fetcher of camera cam: startFetcher and fetchFrame.                 *)
(***************************************************************************)
\* Mutant: the Fetcher takes the mutex before the network call.
FetcherTick_LockFirst(cam) ==
    /\ cam \in cams
    /\ fpc[cam] = "select"
    /\ now[cam] < caches[cam].size + MaxLap
    /\ Lock(cam, "fetcher")
    /\ fpc' = [fpc EXCEPT ![cam] = "fetching"]
    /\ UNCHANGED <<caches, now, written, fbody, serverVars, probeVars,
                   setupVars, shutdownVars, validatorVars, historyVars>>

\* startFetcher's select, case <-ticker.C: fetchFrame is called and the
\* request of client.GetStream is in flight.
FetcherTick(cam) ==
    /\ cam \in cams
    /\ fpc[cam] = "select"
    /\ now[cam] < caches[cam].size + MaxLap
    /\ fpc' = [fpc EXCEPT ![cam] = "fetching"]
    /\ UNCHANGED <<cacheVars, fbody, serverVars, probeVars, setupVars,
                   shutdownVars, validatorVars, historyVars>>

\* fetchFrame abandons the cycle: it logs (but for an empty body) and is
\* about to return.
FetchAbandon(cam) ==
    /\ fpc' = [fpc EXCEPT ![cam] = "abandoned"]
    /\ UNCHANGED <<cacheVars, fbody, serverVars, probeVars, setupVars,
                   shutdownVars, validatorVars, historyVars>>

\* fetchFrame returns without a write; startFetcher is back at its select.
FetcherReturn(cam) ==
    /\ fpc[cam] = "abandoned"
    /\ fpc' = [fpc EXCEPT ![cam] = "select"]
    /\ UNCHANGED <<cacheVars, fbody, serverVars, probeVars, setupVars,
                   shutdownVars, validatorVars, historyVars>>

\* "if err != nil { ... return }"
FetchError(cam) ==
    /\ fpc[cam] = "fetching"
    /\ \E resp \in Responses(upstream[cam]) :
         /\ resp.err
         /\ FetchAbandon(cam)

\* "if resp.StatusCode() != http.StatusOK { ... return }"
FetchBadStatus(cam) ==
    /\ fpc[cam] = "fetching"
    /\ \E resp \in Responses(upstream[cam]) :
         /\ ~resp.err
         /\ resp.status # StatusOK
         /\ FetchAbandon(cam)

\* "if len(body) == 0 { return }"
FetchEmptyBody(cam) ==
    /\ fpc[cam] = "fetching"
    /\ \E resp \in Responses(upstream[cam]) :
         /\ ~resp.err
         /\ resp.status = StatusOK
         /\ BodyLen(resp.body) = 0
         /\ FetchAbandon(cam)

\* Mutant: the "return" after the log line is missing.
FetchInvalid_FallThrough(cam) ==
    /\ fpc[cam] = "fetching"
    /\ \E resp \in Responses(upstream[cam]) :
         /\ ~resp.err
         /\ resp.status = StatusOK
         /\ BodyLen(resp.body) # 0
         /\ ~isValidJPEG(resp.body)
         /\ fbody' = [fbody EXCEPT ![cam] = resp.body]
    /\ fpc' = [fpc EXCEPT ![cam] = "lock"]
    /\ UNCHANGED <<cacheVars, serverVars, probeVars, setupVars,
                   shutdownVars, validatorVars, historyVars>>

\* "if !isValidJPEG(body) { ... return }"
FetchInvalid(cam) ==
    /\ fpc[cam] = "fetching"
    /\ \E resp \in Responses(upstream[cam]) :
         /\ ~resp.err
         /\ resp.status = StatusOK
         /\ BodyLen(resp.body) # 0
         /\ ~isValidJPEG(resp.body)
         /\ FetchAbandon(cam)

\* The body passed every check: fetchFrame goes on to "cache.mu.Lock()".
FetchValid(cam) ==
    /\ fpc[cam] = "fetching"
    /\ \E resp \in Responses(upstream[cam]) :
         /\ ~resp.err
         /\ resp.status = StatusOK
         /\ BodyLen(resp.body) # 0
         /\ isValidJPEG(resp.body)
         /\ fbody' = [fbody EXCEPT ![cam] = resp.body]
    /\ fpc' = [fpc EXCEPT ![cam] = "lock"]
    /\ UNCHANGED <<cacheVars, serverVars, probeVars, setupVars,
                   shutdownVars, validatorVars, historyVars>>

\* cache.mu.Lock() returns.
FetcherLock(cam) ==
    /\ fpc[cam] = "lock"
    /\ Lock(cam, "fetcher")
    /\ fpc' = [fpc EXCEPT ![cam] = "locked"]
    /\ UNCHANGED <<caches, now, written, fbody, serverVars, probeVars,
                   setupVars, shutdownVars, validatorVars, historyVars>>

\* The critical section of fetchFrame: the new Frame holds a copy of the
\* body and time.Now(), which is later than the time of the write before
\* it (the writes of one Fetcher are a network call apart); it is stored
\* at writeIndex, writeIndex advances, and the mutex is released.
FetcherWrite(cam) ==
    /\ fpc[cam] = "locked"
    /\ now' = [now EXCEPT ![cam] = @ + 1]
    /\ caches' = [caches EXCEPT
                    ![cam] = WriteFrame(@, Frame(now'[cam], fbody[cam]))]
    /\ written' = [written EXCEPT
                     ![cam] = Append(@, Frame(now'[cam], fbody[cam]))]
    /\ Unlock(cam, "fetcher")
    /\ fpc' = [fpc EXCEPT ![cam] = "select"]
    /\ fbody' = [fbody EXCEPT ![cam] = EmptyBody]
    /\ UNCHANGED <<serverVars, probeVars, setupVars, shutdownVars,
                   validatorVars, historyVars>>

Fetcher(cam) ==
    \/ FetcherTick(cam)
    \/ FetchError(cam)
    \/ FetchBadStatus(cam)
    \/ FetchEmptyBody(cam)
    \/ FetchInvalid(cam)
    \/ FetcherReturn(cam)
    \/ FetchValid(cam)
    \/ FetcherLock(cam)
    \/ FetcherWrite(cam)

(***************************************************************************)
(* The Stream Server of client c: the loop of streamCameraFromCache.       *)
(***************************************************************************)
\* Mutant: Content-Length counts the trailing CRLF too.
HeaderChunk_CountsCRLF(f) ==
    [kind |-> "header", boundary |-> "--frame", contentType |-> "image/jpeg",
     contentLength |-> BodyLen(f.data) + 2]

\* The chunks a server hands to w.Write, and the flush.
HeaderChunk(f) ==
    [kind |-> "header", boundary |-> "--frame", contentType |-> "image/jpeg",
     contentLength |-> BodyLen(f.data)]
DataChunk(f) == [kind |-> "data", data |-> f.data]
SepChunk == [kind |-> "crlf"]
FlushMark == [kind |-> "flush"]

\* select, case <-ctx.Done(): the handler returns.
ServerDisconnected(c) ==
    /\ pc[c] = "select"
    /\ ctxDone[c]
    /\ pc' = [pc EXCEPT ![c] = "disconnected"]
    /\ UNCHANGED <<cacheVars, fetcherVars, frame, lastTs, sink, ctxDone,
                   body, probeVars, setupVars, shutdownVars,
                   validatorVars, historyVars>>

\* select, default: the server calls getNextFrame and waits for the mutex.
ServerSelectDefault(c) ==
    /\ pc[c] = "select"
    /\ ~ctxDone[c]
    /\ pc' = [pc EXCEPT ![c] = "lock"]
    /\ UNCHANGED <<cacheVars, fetcherVars, frame, lastTs, sink, ctxDone,
                   body, probeVars, setupVars, shutdownVars,
                   validatorVars, historyVars>>

\* getNextFrame: cache.mu.Lock() returns.
ServerLock(c) ==
    /\ pc[c] = "lock"
    /\ Lock(camOf[c], c)
    /\ pc' = [pc EXCEPT ![c] = "locked"]
    /\ UNCHANGED <<caches, now, written, fetcherVars, frame, lastTs,
                   sink, ctxDone, body, probeVars, setupVars,
                   shutdownVars, validatorVars, historyVars>>

\* Mutant: the return without the Unlock.
ServerGetNext_NoUnlock(c) ==
    /\ pc[c] = "locked"
    /\ LET r == GetNextFrame(caches[camOf[c]])
       IN /\ caches' = [caches EXCEPT ![camOf[c]] = r.cache]
          /\ frame' = [frame EXCEPT ![c] = r.ret]
    /\ pc' = [pc EXCEPT ![c] = "got"]
    /\ UNCHANGED <<mu, now, written, fetcherVars, lastTs, sink, ctxDone,
                   body, probeVars, setupVars, shutdownVars,
                   validatorVars, historyVars>>

\* getNextFrame: the critical section, the deferred Unlock and the return.
ServerGetNext(c) ==
    /\ pc[c] = "locked"
    /\ LET r == GetNextFrame(caches[camOf[c]])
       IN /\ caches' = [caches EXCEPT ![camOf[c]] = r.cache]
          /\ frame' = [frame EXCEPT ![c] = r.ret]
    /\ Unlock(camOf[c], c)
    /\ pc' = [pc EXCEPT ![c] = "got"]
    /\ UNCHANGED <<now, written, fetcherVars, lastTs, sink, ctxDone,
                   body, probeVars, setupVars, shutdownVars,
                   validatorVars, historyVars>>

\* Mutant: "return" in place of the sleep and "continue".
ServerNoFrame_Return(c) ==
    /\ pc[c] = "got"
    /\ frame[c] = Nil
    /\ pc' = [pc EXCEPT ![c] = "failed"]
    /\ UNCHANGED <<cacheVars, fetcherVars, frame, lastTs, sink, ctxDone,
                   body, probeVars, setupVars, shutdownVars,
                   validatorVars, historyVars>>

\* "if frame == nil": time.Sleep(50 * time.Millisecond) begins.
ServerNoFrame(c) ==
    /\ pc[c] = "got"
    /\ frame[c] = Nil
    /\ pc' = [pc EXCEPT ![c] = "backoff"]
    /\ UNCHANGED <<cacheVars, fetcherVars, frame, lastTs, sink, ctxDone,
                   body, probeVars, setupVars, shutdownVars,
                   validatorVars, historyVars>>

\* The backoff sleep ends: continue.
ServerBackoffEnd(c) ==
    /\ pc[c] = "backoff"
    /\ pc' = [pc EXCEPT ![c] = "select"]
    /\ UNCHANGED <<cacheVars, fetcherVars, frame, lastTs, sink, ctxDone,
                   body, probeVars, setupVars, shutdownVars,
                   validatorVars, historyVars>>

\* Mutant: the error is logged and the loop goes on to the next statement.
ServerWriteError_Continue(c, at) ==
    /\ pc[c] = at
    /\ pc' = [pc EXCEPT ![c] = CASE at = "got" -> "header"
                                  [] at = "header" -> "data"
                                  [] OTHER -> "sep"]
    /\ UNCHANGED <<cacheVars, fetcherVars, frame, lastTs, sink, ctxDone,
                   body, probeVars, setupVars, shutdownVars, validatorVars,
                   historyVars>>

\* A write to the client fails: the handler logs and returns.
ServerWriteError(c, at) ==
    /\ pc[c] = at
    /\ pc' = [pc EXCEPT ![c] = "failed"]
    /\ UNCHANGED <<cacheVars, fetcherVars, frame, lastTs, sink, ctxDone,
                   body, probeVars, setupVars, shutdownVars,
                   validatorVars, historyVars>>

\* w.Write(headerBuf) succeeds: a new part begins.
ServerWriteHeader(c) ==
    /\ pc[c] = "got"
    /\ frame[c] # Nil
    /\ sink' = [sink EXCEPT ![c] = <<HeaderChunk(frame[c])>>]
    /\ pc' = [pc EXCEPT ![c] = "header"]
    /\ UNCHANGED <<cacheVars, fetcherVars, frame, lastTs, ctxDone, body,
                   probeVars, setupVars, shutdownVars, validatorVars,
                   historyVars>>

ServerWriteHeaderError(c) ==
    /\ frame[c] # Nil
    /\ ServerWriteError(c, "got")

\* Mutant: the Fetcher refills the Frame of the slot in place, so the
\* server's frame shows what the slot it came from holds now.
ServerWriteData_FromSlot(c) ==
    /\ pc[c] = "header"
    /\ LET cache == caches[camOf[c]]
           slot == GoMod(frame[c].timestamp - 1, cache.size)
       IN sink' = [sink EXCEPT
                     ![c] = Append(@, DataChunk(cache.frames[slot]))]
    /\ pc' = [pc EXCEPT ![c] = "data"]
    /\ UNCHANGED <<cacheVars, fetcherVars, frame, lastTs, ctxDone, body,
                   probeVars, setupVars, shutdownVars, validatorVars,
                   historyVars>>

\* w.Write(frame.data) succeeds.
ServerWriteData(c) ==
    /\ pc[c] = "header"
    /\ sink' = [sink EXCEPT ![c] = Append(@, DataChunk(frame[c]))]
    /\ pc' = [pc EXCEPT ![c] = "data"]
    /\ UNCHANGED <<cacheVars, fetcherVars, frame, lastTs, ctxDone, body,
                   probeVars, setupVars, shutdownVars, validatorVars,
                   historyVars>>

ServerWriteDataError(c) == ServerWriteError(c, "header")

\* w.Write([]byte("\r\n")) succeeds.
ServerWriteSep(c) ==
    /\ pc[c] = "data"
    /\ sink' = [sink EXCEPT ![c] = Append(@, SepChunk)]
    /\ pc' = [pc EXCEPT ![c] = "sep"]
    /\ UNCHANGED <<cacheVars, fetcherVars, frame, lastTs, ctxDone, body,
                   probeVars, setupVars, shutdownVars, validatorVars,
                   historyVars>>

ServerWriteSepError(c) == ServerWriteError(c, "data")

\* flusher.Flush(), and time.Sleep(frameInterval) begins.
ServerFlush(c) ==
    /\ pc[c] = "sep"
    /\ sink' = [sink EXCEPT ![c] = Append(@, FlushMark)]
    /\ pc' = [pc EXCEPT ![c] = "sleep"]
    /\ UNCHANGED <<cacheVars, fetcherVars, frame, lastTs, ctxDone, body,
                   probeVars, setupVars, shutdownVars, validatorVars,
                   historyVars>>

\* The sleep ends and the next iteration begins: "frame" goes out of scope,
\* and lastTs remembers which frame this iteration obtained.
ServerSleepEnd(c) ==
    /\ pc[c] = "sleep"
    /\ lastTs' = [lastTs EXCEPT ![c] = frame[c].timestamp]
    /\ frame' = [frame EXCEPT ![c] = Nil]
    /\ pc' = [pc EXCEPT ![c] = "select"]
    /\ UNCHANGED <<cacheVars, fetcherVars, sink, ctxDone, body,
                   probeVars, setupVars, shutdownVars, validatorVars,
                   historyVars>>

\* One whole part, when no write fails: the three writes and the flush of
\* ServerWriteHeader, ServerWriteData, ServerWriteSep and ServerFlush, which
\* touch nothing but the server's own client.
ServerEmit(c) ==
    /\ pc[c] = "got"
    /\ frame[c] # Nil
    /\ sink' = [sink EXCEPT
                  ![c] = <<HeaderChunk(frame[c]), DataChunk(frame[c]),
                           SepChunk, FlushMark>>]
    /\ pc' = [pc EXCEPT ![c] = "sleep"]
    /\ UNCHANGED <<cacheVars, fetcherVars, frame, lastTs, ctxDone, body,
                   probeVars, setupVars, shutdownVars, validatorVars,
                   historyVars>>

\* Mutant: the handlers share one context, which the first client to go
\* away cancels.
Disconnect_SharedContext(c) ==
    /\ ~ctxDone[c]
    /\ pc[c] \notin {"disconnected", "failed"}
    /\ ctxDone' = [d \in Clients |-> TRUE]
    /\ UNCHANGED <<cacheVars, fetcherVars, pc, frame, lastTs, sink, body,
                   probeVars, setupVars, shutdownVars, validatorVars,
                   historyVars>>

\* The client goes away: r.Context() is cancelled.
Disconnect(c) ==
    /\ ~ctxDone[c]
    /\ pc[c] \notin {"disconnected", "failed"}
    /\ ctxDone' = [ctxDone EXCEPT ![c] = TRUE]
    /\ UNCHANGED <<cacheVars, fetcherVars, pc, frame, lastTs, sink,
                   probeVars, body, setupVars, shutdownVars,
                   validatorVars, historyVars>>

\* The loop with each write to the client a step of its own, and the exits.
ServerWrites(c) ==
    \/ ServerDisconnected(c)
    \/ ServerSelectDefault(c)
    \/ ServerLock(c)
    \/ ServerGetNext(c)
    \/ ServerNoFrame(c)
    \/ ServerBackoffEnd(c)
    \/ ServerWriteHeader(c)
    \/ ServerWriteHeaderError(c)
    \/ ServerWriteData(c)
    \/ ServerWriteDataError(c)
    \/ ServerWriteSep(c)
    \/ ServerWriteSepError(c)
    \/ ServerFlush(c)
    \/ ServerSleepEnd(c)

\* The loop of a server whose client stays connected and takes every write.
Server(c) ==
    \/ ServerSelectDefault(c)
    \/ ServerLock(c)
    \/ ServerGetNext(c)
    \/ ServerNoFrame(c)
    \/ ServerBackoffEnd(c)
    \/ ServerEmit(c)
    \/ ServerSleepEnd(c)

(***************************************************************************)
(* A caller of getLatestFrame on camera cam.                               *)
(***************************************************************************)
\* getLatestFrame is called and waits for the mutex.
LatestCall(cam) ==
    /\ cam \in cams
    /\ ppc[cam] = "idle"
    /\ ppc' = [ppc EXCEPT ![cam] = "rlock"]
    /\ UNCHANGED <<cacheVars, fetcherVars, serverVars, latestRet,
                   setupVars, shutdownVars, validatorVars, historyVars>>

\* cache.mu.RLock() returns.
LatestRLock(cam) ==
    /\ ppc[cam] = "rlock"
    /\ RLock(cam, "probe")
    /\ ppc' = [ppc EXCEPT ![cam] = "rlocked"]
    /\ UNCHANGED <<caches, now, written, fetcherVars, serverVars,
                   latestRet, setupVars, shutdownVars, validatorVars,
                   historyVars>>

\* The body of getLatestFrame, the deferred RUnlock and the return.
LatestReturn(cam) ==
    /\ ppc[cam] = "rlocked"
    /\ latestRet' = [latestRet EXCEPT ![cam] = GetLatestFrame(caches[cam])]
    /\ RUnlock(cam, "probe")
    /\ ppc' = [ppc EXCEPT ![cam] = "returned"]
    /\ UNCHANGED <<caches, now, written, fetcherVars, serverVars,
                   setupVars, shutdownVars, validatorVars, historyVars>>

\* The caller drops the result.
LatestDrop(cam) ==
    /\ ppc[cam] = "returned"
    /\ latestRet' = [latestRet EXCEPT ![cam] = Nil]
    /\ ppc' = [ppc EXCEPT ![cam] = "idle"]
    /\ UNCHANGED <<cacheVars, fetcherVars, serverVars, setupVars,
                   shutdownVars, validatorVars, historyVars>>

Probe(cam) ==
    \/ LatestCall(cam)
    \/ LatestRLock(cam)
    \/ LatestReturn(cam)
    \/ LatestDrop(cam)

(***************************************************************************)
(* The system.                                                             *)
(***************************************************************************)
\* One Fetcher, the Stream Servers of two connected clients and a caller of
\* getLatestFrame, all on the cache of one camera.
Next ==
    \/ \E cam \in Cameras : Fetcher(cam)
    \/ \E c \in Clients : Server(c)
    \/ \E cam \in Cameras : Probe(cam)

Spec == Init /\ [][Next]_vars

\* The cache as main builds it, newCameraCache(10), with one Fetcher and the
\* Stream Servers of two connected clients.
RingNext ==
    \/ \E cam \in Cameras : Fetcher(cam)
    \/ \E c \in Clients : Server(c)

RingInit == InitWith({"rua"}, {RingSize}, OneImage)

RingSpec == RingInit /\ [][RingNext]_vars

\* The same with clients that disconnect and writes that fail.
StreamNext ==
    \/ \E cam \in Cameras : Fetcher(cam)
    \/ \E c \in Clients : ServerWrites(c)
    \/ \E c \in Clients : Disconnect(c)

StreamInit == InitWith({"rua"}, {1}, TwoImages)

StreamSpec == StreamInit /\ [][StreamNext]_vars

(***************************************************************************)
(* The Fetcher with its ticker and the cancellation of fm.ctx: the select  *)
(* of startFetcher.  A select with several ready cases runs one of them,   *)
(* chosen at random (The Go Programming Language Specification, "Select    *)
(* statements"), so each case is enabled whenever its channel is ready.    *)
(***************************************************************************)
\* The runtime timer of time.NewTicker sends a tick on ticker.C, a channel
\* of capacity 1; a tick that finds the channel full is dropped.  The
\* deferred ticker.Stop() ends the ticks when startFetcher returns.
TickerFire(cam) ==
    /\ cam \in cams
    /\ fpc[cam] # "stopped"
    /\ ~tickC[cam]
    /\ tickC' = [tickC EXCEPT ![cam] = TRUE]
    /\ UNCHANGED <<cacheVars, fetcherVars, serverVars, probeVars, setupVars,
                   fmDone, validatorVars, historyVars>>

\* fm.cancel(): the channel fm.ctx.Done() is closed.
Cancel ==
    /\ ~fmDone
    /\ fmDone' = TRUE
    /\ UNCHANGED <<cacheVars, fetcherVars, serverVars, probeVars, setupVars,
                   tickC, validatorVars, historyVars>>

\* Mutant: "continue" in place of the return.
FetcherSelectDone_Continue(cam) ==
    /\ cam \in cams
    /\ fpc[cam] = "select"
    /\ fmDone
    /\ UNCHANGED vars

\* select, case <-fm.ctx.Done(): return.
FetcherSelectDone(cam) ==
    /\ cam \in cams
    /\ fpc[cam] = "select"
    /\ fmDone
    /\ fpc' = [fpc EXCEPT ![cam] = "stopped"]
    /\ UNCHANGED <<cacheVars, fbody, serverVars, probeVars, setupVars,
                   shutdownVars, validatorVars, historyVars>>

\* select, case <-ticker.C: the tick is received and fetchFrame is called.
FetcherSelectTick(cam) ==
    /\ cam \in cams
    /\ fpc[cam] = "select"
    /\ tickC[cam]
    /\ now[cam] < caches[cam].size + MaxLap
    /\ tickC' = [tickC EXCEPT ![cam] = FALSE]
    /\ fpc' = [fpc EXCEPT ![cam] = "fetching"]
    /\ UNCHANGED <<cacheVars, fbody, serverVars, probeVars, setupVars,
                   fmDone, validatorVars, historyVars>>

TickedFetcher(cam) ==
    \/ TickerFire(cam)
    \/ FetcherSelectDone(cam)
    \/ FetcherSelectTick(cam)
    \/ FetchError(cam)
    \/ FetchBadStatus(cam)
    \/ FetchEmptyBody(cam)
    \/ FetchInvalid(cam)
    \/ FetcherReturn(cam)
    \/ FetchValid(cam)
    \/ FetcherLock(cam)
    \/ FetcherWrite(cam)

\* The Fetchers of two cameras, their tickers and the one cancellation.
ShutdownNext ==
    \/ Cancel
    \/ \E cam \in Cameras : TickedFetcher(cam)

ShutdownInit == InitWith(Cameras, {2}, OneImage)

ShutdownSpec == ShutdownInit /\ [][ShutdownNext]_vars

\* The call of client.GetStream returns, with any of its outcomes.
FetchReturns(cam) ==
    \/ FetchError(cam)
    \/ FetchBadStatus(cam)
    \/ FetchEmptyBody(cam)
    \/ FetchInvalid(cam)
    \/ FetchValid(cam)

\* The Fetchers and the cancellation, with clients that disconnect.
CancelNext ==
    \/ ShutdownNext
    \/ \E c \in Clients : Disconnect(c)

\* What the runtime gives a Fetcher: a select with several ready cases
\* picks one uniformly at random, so a case that is ready again and again
\* is taken; the request of GetStream has a timeout; a goroutine that is
\* able to run does run, and a Lock that is free again and again is
\* acquired.
CancelFairness ==
    \A cam \in Cameras :
        /\ SF_vars(FetcherSelectDone(cam))
        /\ WF_vars(FetchReturns(cam))
        /\ WF_vars(FetcherReturn(cam))
        /\ SF_vars(FetcherLock(cam))
        /\ WF_vars(FetcherWrite(cam))

CancelSpec == ShutdownInit /\ [][CancelNext]_vars /\ CancelFairness

(***************************************************************************)
(* Two cameras at work: each has its cache and its Fetcher (main starts    *)
(* one per camera), and each client streams another camera.                *)
(***************************************************************************)
OneEach == {[c \in Clients |-> IF c = "c1" THEN "rua" ELSE "piscina"]}

TwoCamInit ==
    /\ InitAt(Cameras, {2}, OneImage, {DefaultConfig}, AllFlush,
              "select", "select", OneEach)
    /\ vdata = EmptyBody
    /\ vret = "none"

TwoCamNext ==
    \/ \E cam \in Cameras : Fetcher(cam)
    \/ \E c \in Clients : Server(c)

TwoCamSpec == TwoCamInit /\ [][TwoCamNext]_vars

(***************************************************************************)
(* The cursors under observation: the calls of getNextFrame are counted    *)
(* and what they return is recorded.                                       *)
(***************************************************************************)
\* The body of getNextFrame, the deferred Unlock and the return, as
\* ServerGetNext, with the history of the cache: a call that takes the
\* branch of "Get next frame and advance read index" is counted, and the
\* timestamp of a frame returned is recorded.
ServerGetNextLogged(c) ==
    /\ pc[c] = "locked"
    /\ LET cache == caches[camOf[c]]
           r == GetNextFrame(cache)
       IN /\ caches' = [caches EXCEPT ![camOf[c]] = r.cache]
          /\ frame' = [frame EXCEPT ![c] = r.ret]
          /\ advances' = [advances EXCEPT
                            ![camOf[c]] =
                                IF cache.readIndex = cache.writeIndex
                                THEN @ ELSE @ + 1]
          /\ delivered' = [delivered EXCEPT
                             ![camOf[c]] =
                                 IF r.ret = Nil
                                 THEN @ ELSE @ \cup {r.ret.timestamp}]
    /\ Unlock(camOf[c], c)
    /\ pc' = [pc EXCEPT ![c] = "got"]
    /\ UNCHANGED <<now, written, fetcherVars, lastTs, sink, ctxDone,
                   body, probeVars, setupVars, shutdownVars,
                   validatorVars>>

LoggedServer(c) ==
    \/ ServerSelectDefault(c)
    \/ ServerLock(c)
    \/ ServerGetNextLogged(c)
    \/ ServerNoFrame(c)
    \/ ServerBackoffEnd(c)
    \/ ServerEmit(c)
    \/ ServerSleepEnd(c)

CursorNext ==
    \/ \E cam \in Cameras : Fetcher(cam)
    \/ \E c \in Clients : LoggedServer(c)

CursorSpec == Init /\ [][CursorNext]_vars

(***************************************************************************)
(* The handler of a camera endpoint, from the request to the loop: the     *)
(* closure main registers and the head of streamCameraFromCache and of     *)
(* streamCameraDirect.                                                     *)
(***************************************************************************)
\* What http.Error(w, "Streaming unsupported", 500) sends: the status, the
\* Content-Type it sets and the message.
ErrorChunk ==
    [kind |-> "error", status |-> StatusInternalServerError,
     contentType |-> "text/plain; charset=utf-8",
     text |-> "Streaming unsupported"]

\* Mutant: the "return" after http.Error is missing.
HandlerUnsupported_FallThrough(c) ==
    /\ pc[c] = "start"
    /\ ~flusher[c]
    /\ sink' = [sink EXCEPT ![c] = <<ErrorChunk>>]
    /\ pc' = [pc EXCEPT ![c] = IF cfg.UseCache THEN "select" ELSE "dselect"]
    /\ UNCHANGED <<cacheVars, fetcherVars, frame, lastTs, ctxDone, body,
                   probeVars, setupVars, shutdownVars, validatorVars,
                   historyVars>>

\* "flusher, ok := w.(http.Flusher); if !ok { http.Error(...); return }"
HandlerUnsupported(c) ==
    /\ pc[c] = "start"
    /\ ~flusher[c]
    /\ sink' = [sink EXCEPT ![c] = <<ErrorChunk>>]
    /\ pc' = [pc EXCEPT ![c] = "unsupported"]
    /\ UNCHANGED <<cacheVars, fetcherVars, frame, lastTs, ctxDone, body,
                   probeVars, setupVars, shutdownVars, validatorVars,
                   historyVars>>

\* "if cfg.Server.UseCache { streamCameraFromCache(...) }": the writer can
\* flush, frameInterval is computed and the loop is entered.
HandlerCached(c) ==
    /\ pc[c] = "start"
    /\ flusher[c]
    /\ cfg.UseCache
    /\ cfg.FPS # 0
    /\ pc' = [pc EXCEPT ![c] = "select"]
    /\ UNCHANGED <<cacheVars, fetcherVars, frame, lastTs, sink, ctxDone,
                   body, probeVars, setupVars, shutdownVars, validatorVars,
                   historyVars>>

\* "else { streamCameraDirect(...) }"
HandlerDirect(c) ==
    /\ pc[c] = "start"
    /\ flusher[c]
    /\ ~cfg.UseCache
    /\ cfg.FPS # 0
    /\ pc' = [pc EXCEPT ![c] = "dselect"]
    /\ UNCHANGED <<cacheVars, fetcherVars, frame, lastTs, sink, ctxDone,
                   body, probeVars, setupVars, shutdownVars, validatorVars,
                   historyVars>>

Handler(c) ==
    \/ HandlerUnsupported(c)
    \/ HandlerCached(c)
    \/ HandlerDirect(c)

(***************************************************************************)
(* The Stream Server of client c in direct mode: the loop of               *)
(* streamCameraDirect.  Its positions carry a "d" so that the steps of the *)
(* two loops stay apart.                                                   *)
(***************************************************************************)
\* The header and the payload the direct loop writes for "body".
BodyHeaderChunk(b) ==
    [kind |-> "header", boundary |-> "--frame", contentType |-> "image/jpeg",
     contentLength |-> BodyLen(b)]
BodyDataChunk(b) == [kind |-> "data", data |-> b]

\* select, case <-ctx.Done(): the handler returns.
DirectDisconnected(c) ==
    /\ pc[c] = "dselect"
    /\ ctxDone[c]
    /\ pc' = [pc EXCEPT ![c] = "disconnected"]
    /\ UNCHANGED <<cacheVars, fetcherVars, frame, lastTs, sink, ctxDone,
                   body, probeVars, setupVars, shutdownVars, validatorVars,
                   historyVars>>

\* Mutant: the loop goes on to fetch whatever ctx.Done() says.
DirectSelectDefault_IgnoreDone(c) ==
    /\ pc[c] = "dselect"
    /\ pc' = [pc EXCEPT ![c] = "dfetching"]
    /\ UNCHANGED <<cacheVars, fetcherVars, frame, lastTs, sink, ctxDone,
                   body, probeVars, setupVars, shutdownVars, validatorVars,
                   historyVars>>

\* select, default: fm.client.GetStream(cameraURL) is in flight.
DirectSelectDefault(c) ==
    /\ pc[c] = "dselect"
    /\ ~ctxDone[c]
    /\ pc' = [pc EXCEPT ![c] = "dfetching"]
    /\ UNCHANGED <<cacheVars, fetcherVars, frame, lastTs, sink, ctxDone,
                   body, probeVars, setupVars, shutdownVars, validatorVars,
                   historyVars>>

\* The fetch of this iteration failed: time.Sleep(frameInterval) begins,
\* then "continue".
DirectRetry(c) ==
    /\ pc' = [pc EXCEPT ![c] = "dretry"]
    /\ UNCHANGED <<cacheVars, fetcherVars, frame, lastTs, sink, ctxDone,
                   body, probeVars, setupVars, shutdownVars, validatorVars,
                   historyVars>>

\* "if err != nil { ...; time.Sleep(frameInterval); continue }"
DirectFetchError(c) ==
    /\ pc[c] = "dfetching"
    /\ \E resp \in Responses(upstream[camOf[c]]) :
         /\ resp.err
         /\ DirectRetry(c)

\* "if resp.StatusCode() != http.StatusOK { ... }"
DirectFetchBadStatus(c) ==
    /\ pc[c] = "dfetching"
    /\ \E resp \in Responses(upstream[camOf[c]]) :
         /\ ~resp.err
         /\ resp.status # StatusOK
         /\ DirectRetry(c)

\* "if len(body) == 0 { ... }"
DirectFetchEmptyBody(c) ==
    /\ pc[c] = "dfetching"
    /\ \E resp \in Responses(upstream[camOf[c]]) :
         /\ ~resp.err
         /\ resp.status = StatusOK
         /\ BodyLen(resp.body) = 0
         /\ DirectRetry(c)

\* "if !isValidJPEG(body) { ... }"
DirectFetchInvalid(c) ==
    /\ pc[c] = "dfetching"
    /\ \E resp \in Responses(upstream[camOf[c]]) :
         /\ ~resp.err
         /\ resp.status = StatusOK
         /\ BodyLen(resp.body) # 0
         /\ ~isValidJPEG(resp.body)
         /\ DirectRetry(c)

\* The sleep after a failed fetch ends: the next iteration begins.
DirectRetryEnd(c) ==
    /\ pc[c] = "dretry"
    /\ pc' = [pc EXCEPT ![c] = "dselect"]
    /\ UNCHANGED <<cacheVars, fetcherVars, frame, lastTs, sink, ctxDone,
                   body, probeVars, setupVars, shutdownVars, validatorVars,
                   historyVars>>

\* The body passed every check: the header is built.
DirectFetchValid(c) ==
    /\ pc[c] = "dfetching"
    /\ \E resp \in Responses(upstream[camOf[c]]) :
         /\ ~resp.err
         /\ resp.status = StatusOK
         /\ BodyLen(resp.body) # 0
         /\ isValidJPEG(resp.body)
         /\ body' = [body EXCEPT ![c] = resp.body]
    /\ pc' = [pc EXCEPT ![c] = "dgot"]
    /\ UNCHANGED <<cacheVars, fetcherVars, frame, lastTs, sink, ctxDone,
                   probeVars, setupVars, shutdownVars, validatorVars,
                   historyVars>>

\* A write to the client fails: the handler logs and returns.
DirectWriteError(c, at) ==
    /\ pc[c] = at
    /\ pc' = [pc EXCEPT ![c] = "failed"]
    /\ UNCHANGED <<cacheVars, fetcherVars, frame, lastTs, sink, ctxDone,
                   body, probeVars, setupVars, shutdownVars, validatorVars,
                   historyVars>>

\* w.Write(headerBuf) succeeds: a new part begins.
DirectWriteHeader(c) ==
    /\ pc[c] = "dgot"
    /\ sink' = [sink EXCEPT ![c] = <<BodyHeaderChunk(body[c])>>]
    /\ pc' = [pc EXCEPT ![c] = "dheader"]
    /\ UNCHANGED <<cacheVars, fetcherVars, frame, lastTs, ctxDone, body,
                   probeVars, setupVars, shutdownVars, validatorVars,
                   historyVars>>

DirectWriteHeaderError(c) == DirectWriteError(c, "dgot")

\* w.Write(body) succeeds.
DirectWriteData(c) ==
    /\ pc[c] = "dheader"
    /\ sink' = [sink EXCEPT ![c] = Append(@, BodyDataChunk(body[c]))]
    /\ pc' = [pc EXCEPT ![c] = "ddata"]
    /\ UNCHANGED <<cacheVars, fetcherVars, frame, lastTs, ctxDone, body,
                   probeVars, setupVars, shutdownVars, validatorVars,
                   historyVars>>

DirectWriteDataError(c) == DirectWriteError(c, "dheader")

\* w.Write([]byte("\r\n")) succeeds.
DirectWriteSep(c) ==
    /\ pc[c] = "ddata"
    /\ sink' = [sink EXCEPT ![c] = Append(@, SepChunk)]
    /\ pc' = [pc EXCEPT ![c] = "dsep"]
    /\ UNCHANGED <<cacheVars, fetcherVars, frame, lastTs, ctxDone, body,
                   probeVars, setupVars, shutdownVars, validatorVars,
                   historyVars>>

DirectWriteSepError(c) == DirectWriteError(c, "ddata")

\* flusher.Flush(), and time.Sleep(frameInterval) begins.
DirectFlush(c) ==
    /\ pc[c] = "dsep"
    /\ sink' = [sink EXCEPT ![c] = Append(@, FlushMark)]
    /\ pc' = [pc EXCEPT ![c] = "dsleep"]
    /\ UNCHANGED <<cacheVars, fetcherVars, frame, lastTs, ctxDone, body,
                   probeVars, setupVars, shutdownVars, validatorVars,
                   historyVars>>

\* The sleep ends and the next iteration begins: "body" goes out of scope.
DirectSleepEnd(c) ==
    /\ pc[c] = "dsleep"
    /\ body' = [body EXCEPT ![c] = EmptyBody]
    /\ pc' = [pc EXCEPT ![c] = "dselect"]
    /\ UNCHANGED <<cacheVars, fetcherVars, frame, lastTs, sink, ctxDone,
                   probeVars, setupVars, shutdownVars, validatorVars,
                   historyVars>>

\* The writes of a part and the exits on a failed write.
DirectPart(c) ==
    \/ DirectWriteHeader(c)
    \/ DirectWriteHeaderError(c)
    \/ DirectWriteData(c)
    \/ DirectWriteDataError(c)
    \/ DirectWriteSep(c)
    \/ DirectWriteSepError(c)
    \/ DirectFlush(c)
    \/ DirectSleepEnd(c)

DirectWrites(c) ==
    \/ DirectDisconnected(c)
    \/ DirectSelectDefault(c)
    \/ DirectFetchError(c)
    \/ DirectFetchBadStatus(c)
    \/ DirectFetchEmptyBody(c)
    \/ DirectFetchInvalid(c)
    \/ DirectRetryEnd(c)
    \/ DirectFetchValid(c)
    \/ DirectPart(c)

(***************************************************************************)
(* The server as main configures it: the cache is on or off for the whole  *)
(* process, each client's ResponseWriter can flush or cannot, and clients  *)
(* disconnect and writes fail at any moment.  Fetchers run only when the   *)
(* cache is on.                                                            *)
(***************************************************************************)
ServeInit ==
    /\ InitCore({"rua"}, {2}, OneImage,
                {[DefaultConfig EXCEPT !.UseCache = u] : u \in BOOLEAN},
                [Clients -> BOOLEAN], "select", "start")
    /\ vdata = EmptyBody
    /\ vret = "none"

ServeNext ==
    \/ \E cam \in Cameras : Fetcher(cam)
    \/ \E c \in Clients : Handler(c)
    \/ \E c \in Clients : ServerWrites(c)
    \/ \E c \in Clients : DirectWrites(c)
    \/ \E c \in Clients : Disconnect(c)

ServeSpec == ServeInit /\ [][ServeNext]_vars

(***************************************************************************)
(* The stream loop of the program of src/unnamed/part_001, streamCamera:   *)
(* the loop of streamCameraDirect with other sleeps after a failed fetch   *)
(* and without the call of isValidJPEG.  The steps the two loops have in   *)
(* common are those of streamCameraDirect.                                 *)
(***************************************************************************)
\* streamCamera: the writer can flush, frameInterval is computed and the
\* loop is entered.
LegacyHandler(c) ==
    /\ pc[c] = "start"
    /\ flusher[c]
    /\ cfg.FPS # 0
    /\ pc' = [pc EXCEPT ![c] = "dselect"]
    /\ UNCHANGED <<cacheVars, fetcherVars, frame, lastTs, sink, ctxDone,
                   body, probeVars, setupVars, shutdownVars, validatorVars,
                   historyVars>>

\* After "if len(body) == 0 { ... continue }" the header is built: every
\* non-empty body of a 200 response is written.
LegacyFetchBody(c) ==
    /\ pc[c] = "dfetching"
    /\ \E resp \in Responses(upstream[camOf[c]]) :
         /\ ~resp.err
         /\ resp.status = StatusOK
         /\ BodyLen(resp.body) # 0
         /\ body' = [body EXCEPT ![c] = resp.body]
    /\ pc' = [pc EXCEPT ![c] = "dgot"]
    /\ UNCHANGED <<cacheVars, fetcherVars, frame, lastTs, sink, ctxDone,
                   probeVars, setupVars, shutdownVars, validatorVars,
                   historyVars>>

LegacyStream(c) ==
    \/ LegacyHandler(c)
    \/ DirectDisconnected(c)
    \/ DirectSelectDefault(c)
    \/ DirectFetchError(c)
    \/ DirectFetchBadStatus(c)
    \/ DirectFetchEmptyBody(c)
    \/ DirectRetryEnd(c)
    \/ LegacyFetchBody(c)
    \/ DirectPart(c)

LegacyNext ==
    \/ \E c \in Clients : LegacyStream(c)
    \/ \E c \in Clients : Disconnect(c)

LegacyInit ==
    /\ InitCore({}, {1}, OneImage, {DefaultConfig}, AllFlush,
                "select", "start")
    /\ vdata = EmptyBody
    /\ vret = "none"

LegacySpec == LegacyInit /\ [][LegacyNext]_vars

(***************************************************************************)
(* The configuration and the intervals computed from it, at the start of   *)
(* a Fetcher and of a handler.                                             *)
(***************************************************************************)
\* Go's / on int: the quotient truncated toward zero (b # 0).
GoDiv(a, b) ==
    LET abs(x) == IF x < 0 THEN 0 - x ELSE x
        q == abs(a) \div abs(b)
    IN  IF (a < 0) # (b < 0) THEN 0 - q ELSE q

\* "1000/cfg.Server.FPS" milliseconds.
FrameInterval(fps) == GoDiv(MillisPerSecond, fps)

\* Values of the variables FPS and FETCH_FPS of the environment: env.Parse
\* takes every string strconv parses as an int.
EnvInts == {0 - 1, 0, 1, 15, 30, 31, 1000, 1001}

\* The configurations config.NewConfig returns: each variable set to a
\* value of EnvInts or unset and at its default.
Configs ==
    [FPS : EnvInts \cup {DefaultFPS},
     FetchFPS : EnvInts \cup {DefaultFetchFPS},
     UseCache : BOOLEAN]

\* startFetcher: frameInterval is computed and time.NewTicker started.
FetcherStart(cam) ==
    /\ cam \in cams
    /\ fpc[cam] = "start"
    /\ cfg.FetchFPS # 0
    /\ FrameInterval(cfg.FetchFPS) > 0
    /\ fpc' = [fpc EXCEPT ![cam] = "select"]
    /\ UNCHANGED <<cacheVars, fbody, serverVars, probeVars, setupVars,
                   shutdownVars, validatorVars, historyVars>>

\* startFetcher panics: "integer divide by zero" in 1000/FetchFPS, or
\* "non-positive interval for NewTicker" when the quotient is not positive.
\* No goroutine recovers it.
FetcherPanic(cam) ==
    /\ cam \in cams
    /\ fpc[cam] = "start"
    /\ IF cfg.FetchFPS = 0 THEN TRUE
       ELSE FrameInterval(cfg.FetchFPS) <= 0
    /\ fpc' = [fpc EXCEPT ![cam] = "panic"]
    /\ UNCHANGED <<cacheVars, fbody, serverVars, probeVars, setupVars,
                   shutdownVars, validatorVars, historyVars>>

\* The handler panics: "integer divide by zero" in 1000/FPS.  net/http
\* recovers the panic of a handler and drops the connection.
HandlerPanic(c) ==
    /\ pc[c] = "start"
    /\ flusher[c]
    /\ cfg.FPS = 0
    /\ pc' = [pc EXCEPT ![c] = "panic"]
    /\ UNCHANGED <<cacheVars, fetcherVars, frame, lastTs, sink, ctxDone,
                   body, probeVars, setupVars, shutdownVars, validatorVars,
                   historyVars>>

ConfigNext ==
    \/ \E cam \in Cameras : FetcherStart(cam)
    \/ \E cam \in Cameras : FetcherPanic(cam)
    \/ \E c \in Clients : HandlerCached(c)
    \/ \E c \in Clients : HandlerDirect(c)
    \/ \E c \in Clients : HandlerPanic(c)

ConfigInit ==
    /\ InitCore(Cameras, {RingSize}, OneImage, Configs, AllFlush,
                "start", "start")
    /\ vdata = EmptyBody
    /\ vret = "none"

ConfigSpec == ConfigInit /\ [][ConfigNext]_vars

(***************************************************************************)
(* isValidJPEG on its own: one call on a buffer drawn from Buffers.        *)
(***************************************************************************)
SampleBytes == {0, ByteFF, ByteD8, ByteD9}

\* The lengths around the two thresholds of isValidJPEG, and those of
\* ordinary stubs and images.
SampleLens ==
    {4, 5, MinMarkerLen - 1, MinMarkerLen, MinMarkerLen + 1, 500,
     MinJPEGLen - 1, MinJPEGLen, MinJPEGLen + 1, 2 * MinJPEGLen}

\* Every buffer of up to two bytes, and for each length of SampleLens every
\* choice of the first two and the last two bytes, over SampleBytes.
Buffers ==
    {Buffer(h, 0, <<>>) :
        h \in UNION {[1..n -> SampleBytes] : n \in 0..2}}
    \cup
    {Marked(n, b0, b1, y0, y1) :
        n \in SampleLens, b0 \in SampleBytes, b1 \in SampleBytes,
        y0 \in SampleBytes, y1 \in SampleBytes}

\* isValidJPEG(vdata) returns.
ValidatorCall ==
    /\ vret = "none"
    /\ vret' = IF isValidJPEG(vdata) THEN "true" ELSE "false"
    /\ UNCHANGED <<cacheVars, fetcherVars, serverVars, probeVars, setupVars,
                   shutdownVars, vdata, historyVars>>

ValidatorNext == ValidatorCall

ValidatorInit ==
    /\ InitCore({}, {1}, {EmptyBody}, {DefaultConfig}, AllFlush,
                "select", "select")
    /\ vdata \in Buffers
    /\ vret = "none"

ValidatorSpec == ValidatorInit /\ [][ValidatorNext]_vars

(***************************************************************************)
(* Properties.                                                             *)
(***************************************************************************)
Slots(cache) == {cache.frames[i] : i \in DOMAIN cache.frames}

\* The servers of the clients of camera cam.
ClientsOf(cam) == {c \in Clients : camOf[c] = cam}

\* The timestamp of the last frame getNextFrame returned to server c.
LastObtained(c) == IF frame[c] # Nil THEN frame[c].timestamp ELSE lastTs[c]

\* A step in which getNextFrame returns to server c, and one in which
\* getLatestFrame returns to the caller on camera cam.
GetNextReturns(c) == pc[c] = "locked" /\ pc'[c] = "got"
GetLatestReturns(cam) == ppc[cam] = "rlocked" /\ ppc'[cam] = "returned"

\* C1: every frame a Stream Server obtains from getNextFrame is a frame the
\* Fetcher wrote, and was written no earlier than the frame the same server
\* obtained before it, in a cache of capacity 10 with one Fetcher and two
\* Stream Servers, also when the writer laps the readers.
C1_ReaderOrder ==
    \A c \in Clients :
        frame[c] # Nil =>
            /\ frame[c].timestamp \in 1..Len(written[camOf[c]])
            /\ written[camOf[c]][frame[c].timestamp] = frame[c]
            /\ frame[c].timestamp >= lastTs[c]

\* A server obtained a frame, stood still while the Fetcher wrote more than
\* a whole ring, and obtained its next frame.
C1_Witness ==
    \E c \in Clients :
        /\ frame[c] # Nil
        /\ lastTs[c] > 0
        /\ frame[c].timestamp > lastTs[c] + caches[camOf[c]].size

Max(S) == CHOOSE x \in S : \A y \in S : y <= x

\* The newest frame getNextFrame returned to any server of camera cam (0:
\* none).  Frames written later have been returned to no server.
MaxObtained(cam) == Max({0} \cup {LastObtained(c) : c \in ClientsOf(cam)})

\* C2 (as claimed): a getNextFrame call by one Stream Server does not change
\* the position from which another Stream Server on the same camera reads
\* next.
C2_OwnCursor ==
    [][\A c, d \in Clients :
          (c # d /\ camOf[c] = camOf[d] /\ GetNextReturns(c)) =>
              caches'[camOf[d]].readIndex = caches[camOf[d]].readIndex]_vars

\* C3: while the cache of its camera has never been written, a Stream
\* Server has written nothing to its client, is at no write, flush or
\* frame-interval sleep, and has not ended unless its client disconnected.
C3_NothingBeforeFirstWrite ==
    \A c \in Clients :
        now[camOf[c]] = 0 =>
            /\ sink[c] = <<>>
            /\ pc[c] \in {"select", "lock", "locked", "got", "backoff",
                          "disconnected"}
            /\ pc[c] = "disconnected" => ctxDone[c]

\* A server found the cache empty and sleeps the backoff.
C3_Witness ==
    \E c \in Clients :
        pc[c] = "backoff" /\ now[camOf[c]] = 0 /\ sink[c] = <<>>

\* C4: a step in which fetchFrame abandons its cycle or returns without a
\* write leaves the cache as it was; slots and writeIndex change only in the
\* critical section of a fetchFrame whose body passed the validator; and
\* every non-empty slot holds a frame the validator accepts.
C4_FailedFetchKeepsCache ==
    [][\A cam \in Cameras :
          /\ (fpc[cam] = "fetching" /\ fpc'[cam] = "abandoned") =>
                 (caches'[cam] = caches[cam] /\ written' = written)
          /\ (fpc[cam] = "abandoned" /\ fpc'[cam] = "select") =>
                 (caches'[cam] = caches[cam] /\ written' = written)
          /\ (\/ caches'[cam].frames # caches[cam].frames
              \/ caches'[cam].writeIndex # caches[cam].writeIndex) =>
                 (fpc[cam] = "locked" /\ isValidJPEG(fbody[cam]))
          /\ \A f \in Slots(caches'[cam]) :
                 f # Nil => isValidJPEG(f.data)]_vars

\* fetchFrame has abandoned a cycle on a cache that holds frames.
C4_Witness ==
    \E cam \in Cameras :
        /\ fpc[cam] = "abandoned"
        /\ now[cam] >= 1
        /\ \E f \in Slots(caches[cam]) : f # Nil

\* C5: getNextFrame and getLatestFrame return nil exactly when the cache has
\* never been written, and a frame they return is never zero-length.
C5_NilIffNeverWritten ==
    [][/\ \A c \in Clients :
            GetNextReturns(c) =>
                /\ (frame'[c] = Nil) <=> (Len(written[camOf[c]]) = 0)
                /\ frame'[c] # Nil => BodyLen(frame'[c].data) > 0
       /\ \A cam \in Cameras :
            GetLatestReturns(cam) =>
                /\ (latestRet'[cam] = Nil) <=> (Len(written[cam]) = 0)
                /\ latestRet'[cam] # Nil =>
                       BodyLen(latestRet'[cam].data) > 0]_vars

\* One server got nil from the empty cache and still sleeps its backoff
\* while another server and the caller of getLatestFrame got frames.
C5_Witness ==
    \E c, d \in Clients :
        /\ pc[c] = "backoff"
        /\ pc[d] = "got" /\ frame[d] # Nil
        /\ ppc[camOf[d]] = "returned" /\ latestRet[camOf[d]] # Nil

(***************************************************************************)
(* Repeated getNextFrame calls on a cache with no write in between: the    *)
(* cache after k calls and what the k-th call returns.                     *)
(***************************************************************************)
RECURSIVE After(_, _)
After(cache, k) ==
    IF k = 0 THEN cache ELSE GetNextFrame(After(cache, k - 1)).cache

Returned(cache, k) == GetNextFrame(After(cache, k - 1)).ret

\* The slots from readIndex up to writeIndex.
Outstanding(cache) ==
    (cache.writeIndex - cache.readIndex + cache.size) % cache.size

\* C6 (as claimed): with no further write, repeated getNextFrame calls
\* return every frame that is held in the cache and was returned to no
\* server yet, and then stay at the frame of getLatestFrame with readIndex
\* unchanged.
C6_DrainsEveryUnread ==
    \A cam \in Cameras :
        LET cache == caches[cam]
            unread == {f \in Slots(cache) \ {Nil} :
                          f.timestamp > MaxObtained(cam)}
            calls == 1..(2 * cache.size)
        IN  /\ unread \subseteq {Returned(cache, k) : k \in calls}
            /\ Returned(cache, 2 * cache.size) = GetLatestFrame(cache)
            /\ After(cache, 2 * cache.size) = After(cache, 2 * cache.size - 1)

\* C6 (amended): with no further write, repeated getNextFrame calls return
\* the frames of the slots readIndex .. writeIndex-1, which are the
\* (writeIndex - readIndex) mod N most recently written frames in write
\* order, and from then on every call returns the frame of getLatestFrame
\* and leaves the cache, readIndex included, unchanged.
C6_DrainThenLatest ==
    \A cam \in Cameras :
        LET cache == caches[cam]
            d == Outstanding(cache)
            W == Len(written[cam])
        IN  /\ d <= W
            /\ \A k \in 1..d : Returned(cache, k) = written[cam][W - d + k]
            /\ After(cache, d).readIndex = cache.writeIndex
            /\ \A k \in (d + 1)..(d + cache.size + 1) :
                   /\ Returned(cache, k) = GetLatestFrame(cache)
                   /\ After(cache, k) = After(cache, d)

\* Two or more slots are outstanding in a cache the Fetcher wrote more than
\* once around since a server last obtained a frame.
C6_Witness ==
    \E cam \in Cameras :
        /\ Outstanding(caches[cam]) >= 2
        /\ now[cam] > MaxObtained(cam) + caches[cam].size

\* C7: when getLatestFrame returns after exactly k frames were written to a
\* fresh cache of capacity N, 1 <= k <= N, it returns the k-th of them.
C7_LatestIsKth ==
    [][\A cam \in Cameras :
          (GetLatestReturns(cam)
             /\ Len(written[cam]) \in 1..caches[cam].size) =>
              latestRet'[cam] = written[cam][Len(written[cam])]]_vars

\* getLatestFrame returned the N-th frame of a cache of capacity N >= 2 that
\* was written N times.
C7_Witness ==
    \E cam \in Cameras :
        /\ ppc[cam] = "returned"
        /\ caches[cam].size >= 2
        /\ Len(written[cam]) = caches[cam].size
        /\ latestRet[cam] = written[cam][caches[cam].size]

\* The N most recently written frames of camera cam.
LastWritten(cam) ==
    {written[cam][i] :
        i \in {j \in 1..Len(written[cam]) :
                  j > Len(written[cam]) - caches[cam].size}}

\* C8: the critical section of fetchFrame stores the new frame at writeIndex
\* wherever readIndex stands; once more than N frames were written the
\* first one is in no slot; and every frame getNextFrame or getLatestFrame
\* returns is one of the N most recently written.
C8_OverwriteOldest ==
    [][\A cam \in Cameras :
          /\ (fpc[cam] = "locked" /\ fpc'[cam] = "select") =>
                 /\ Len(written'[cam]) = Len(written[cam]) + 1
                 /\ caches'[cam].frames[caches[cam].writeIndex]
                        = written'[cam][Len(written'[cam])]
          /\ Len(written'[cam]) > caches'[cam].size =>
                 written'[cam][1] \notin Slots(caches'[cam])
          /\ \A c \in ClientsOf(cam) :
                 (GetNextReturns(c) /\ frame'[c] # Nil) =>
                     frame'[c] \in LastWritten(cam)
          /\ (GetLatestReturns(cam) /\ latestRet'[cam] # Nil) =>
                 latestRet'[cam] \in LastWritten(cam)]_vars

\* N+1 frames were written and none was read: the last write went to the
\* slot readIndex points at.
C8_Witness ==
    \E cam \in Cameras :
        /\ Len(written[cam]) = caches[cam].size + 1
        /\ MaxObtained(cam) = 0
        /\ caches[cam].readIndex = 0
        /\ caches[cam].frames[0] = written[cam][caches[cam].size + 1]

(***************************************************************************)
(* Scheduling.  A goroutine that can run does run (weak fairness of the    *)
(* steps inside the critical sections), and sync.RWMutex hands the lock to *)
(* a goroutine that keeps waiting for it (strong fairness of Lock and      *)
(* RLock: waiters queue on the mutex's semaphores).                        *)
(***************************************************************************)
Fairness ==
    /\ \A cam \in Cameras :
         /\ SF_vars(FetcherLock(cam))
         /\ WF_vars(FetcherWrite(cam))
         /\ SF_vars(LatestRLock(cam))
         /\ WF_vars(LatestReturn(cam))
    /\ \A c \in Clients :
         /\ SF_vars(ServerLock(c))
         /\ WF_vars(ServerGetNext(c))

\* The lock protocol does not depend on the capacity: the smallest cache.
FairInit == InitWith({"rua"}, {1}, OneImage)

FairSpec == FairInit /\ [][Next]_vars /\ Fairness

\* C9: in every reachable state some task can take a step, and under fair
\* scheduling a Fetcher, Stream Server or getLatestFrame caller that waits
\* for the cache lock acquires it and releases it.
C9_NoDeadlock ==
    /\ [](ENABLED Next)
    /\ \A c \in Clients : (pc[c] = "lock") ~> (pc[c] = "got")
    /\ \A cam \in Cameras :
         /\ (fpc[cam] = "lock") ~> (fpc[cam] = "select")
         /\ (ppc[cam] = "rlock") ~> (ppc[cam] = "returned")

\* One server holds the lock while the other server, the Fetcher and the
\* caller of getLatestFrame wait for it.
C9_Witness ==
    \E c, d \in Clients :
        /\ pc[c] = "locked"
        /\ pc[d] = "lock"
        /\ fpc[camOf[c]] = "lock"
        /\ ppc[camOf[c]] = "rlock"

\* C10: in a cache of capacity N >= 1 the slice has N slots 0..N-1, and
\* writeIndex, readIndex, latestIndex and the cursors fetchFrame and
\* getNextFrame compute next all lie in 0..N-1.
C10_IndicesInRange ==
    \A cam \in Cameras :
        LET cache == caches[cam]
            range == 0..(cache.size - 1)
        IN  /\ cache.size >= 1
            /\ DOMAIN cache.frames = range
            /\ cache.writeIndex \in range
            /\ cache.readIndex \in range
            /\ LatestIndex(cache) \in range
            /\ WriteFrame(cache, Nil).writeIndex \in range
            /\ GetNextFrame(cache).cache.readIndex \in range

\* Both cursors have gone around: writeIndex is back at 0, so latestIndex
\* is (0 - 1 + N) % N, and readIndex is at the last slot.
C10_Witness ==
    \E cam \in Cameras :
        /\ caches[cam].size >= 2
        /\ now[cam] >= caches[cam].size
        /\ caches[cam].writeIndex = 0
        /\ caches[cam].readIndex = caches[cam].size - 1

\* C11 (as claimed): when fm.ctx is done at the moment startFetcher selects
\* its next event, the Fetcher does not perform another fetch, also when a
\* tick is pending.
C11_CancelBeforeTick ==
    [][\A cam \in Cameras :
          (fmDone /\ fpc[cam] = "select") => fpc'[cam] # "fetching"]_vars

\* How far a handler is through one iteration of its loop: the positions
\* in the order the code passes them, the top of the loop last.
Rank(p) ==
    CASE p = "start" -> 0
      [] p \in {"lock", "dfetching"} -> 1
      [] p = "locked" -> 2
      [] p \in {"got", "dgot"} -> 3
      [] p \in {"backoff", "dretry", "header", "dheader"} -> 4
      [] p \in {"data", "ddata"} -> 5
      [] p \in {"sep", "dsep"} -> 6
      [] p \in {"sleep", "dsleep"} -> 7
      [] p \in {"select", "dselect"} -> 8
      [] OTHER -> 9

\* The positions inside the loops, and those of a handler that returned.
LoopPositions ==
    {"select", "lock", "locked", "got", "backoff", "header", "data", "sep",
     "sleep", "dselect", "dfetching", "dretry", "dgot", "dheader", "ddata",
     "dsep", "dsleep"}
Ended == {"disconnected", "failed", "unsupported"}

\* C12: once a client's disconnect signal is raised, its Stream Server, in
\* cached and in direct mode, only moves forward through the iteration it
\* is in (so it begins at most one more part, and only from the point where
\* it holds a frame), and at the top of the loop its only step is to
\* return.
C12_OnePartThenExit ==
    [][\A c \in Clients :
          ctxDone[c] =>
              /\ Rank(pc'[c]) >= Rank(pc[c])
              /\ (pc'[c] \in {"header", "dheader"} /\ pc'[c] # pc[c]) =>
                     pc[c] \in {"got", "dgot"}
              /\ (pc[c] \in {"select", "dselect"} /\ pc'[c] # pc[c]) =>
                     pc'[c] = "disconnected"]_vars

\* The signal is raised while a server holds a frame it has not begun to
\* write: the one further part is still to come.
C12_Witness ==
    \E c \in Clients : ctxDone[c] /\ pc[c] = "got" /\ frame[c] # Nil

\* C13: a step in which a client disconnects or its Stream Server returns
\* (on the signal or on a failed write) changes nothing in any cache, in
\* the mutexes, in the Fetchers or in another client's server, and a server
\* that returned does not hold the cache lock the others need.
C13_OthersUntouched ==
    /\ [][\A c \in Clients :
            (\/ ctxDone'[c] # ctxDone[c]
             \/ (pc'[c] \in {"disconnected", "failed"} /\ pc'[c] # pc[c])) =>
                /\ caches' = caches /\ mu' = mu /\ written' = written
                /\ fpc' = fpc /\ fbody' = fbody
                /\ \A d \in Clients \ {c} :
                       /\ pc'[d] = pc[d] /\ ctxDone'[d] = ctxDone[d]
                       /\ frame'[d] = frame[d] /\ sink'[d] = sink[d]]_vars
    /\ [](\A c \in Clients :
             pc[c] \in Ended =>
                 \A cam \in Cameras :
                     mu[cam].writer # c /\ c \notin mu[cam].readers)

\* One server returned after its client went away, having written nothing;
\* the other sleeps after a complete part of the second frame and the
\* Fetcher is in its next fetch.
C13_Witness ==
    \E c, d \in Clients :
        /\ pc[c] = "disconnected" /\ sink[c] = <<>>
        /\ pc[d] = "sleep" /\ Len(sink[d]) = 4 /\ frame[d].timestamp = 2
        /\ fpc[camOf[d]] = "fetching"

\* C14: a Stream Server leaves its loop only at the top of the loop with
\* the disconnect signal raised or at a write that failed; each of the
\* three writes either hands its chunk to the client or ends the loop at
\* once; and after a failed write the server writes nothing more, flushes
\* nothing, reads no frame and takes no lock.
C14_ExitOnlyOnSignalOrWriteError ==
    [][\A c \in Clients :
          /\ (pc[c] \in LoopPositions /\ pc'[c] \notin LoopPositions) =>
                 \/ /\ pc'[c] = "disconnected"
                    /\ pc[c] \in {"select", "dselect"} /\ ctxDone[c]
                 \/ /\ pc'[c] = "failed"
                    /\ pc[c] \in {"got", "header", "data",
                                  "dgot", "dheader", "ddata"}
                    /\ sink'[c] = sink[c]
          /\ (pc[c] = "got" /\ pc'[c] \notin {"got", "backoff", "failed"}) =>
                 pc'[c] = "header" /\ sink'[c] = <<HeaderChunk(frame[c])>>
          /\ (pc[c] = "header" /\ pc'[c] \notin {"header", "failed"}) =>
                 /\ pc'[c] = "data"
                 /\ sink'[c] = Append(sink[c], DataChunk(frame[c]))
          /\ (pc[c] = "data" /\ pc'[c] \notin {"data", "failed"}) =>
                 pc'[c] = "sep" /\ sink'[c] = Append(sink[c], SepChunk)
          /\ (pc[c] = "dgot" /\ pc'[c] \notin {"dgot", "failed"}) =>
                 /\ pc'[c] = "dheader"
                 /\ sink'[c] = <<BodyHeaderChunk(body[c])>>
          /\ (pc[c] = "dheader" /\ pc'[c] \notin {"dheader", "failed"}) =>
                 /\ pc'[c] = "ddata"
                 /\ sink'[c] = Append(sink[c], BodyDataChunk(body[c]))
          /\ (pc[c] = "ddata" /\ pc'[c] \notin {"ddata", "failed"}) =>
                 pc'[c] = "dsep" /\ sink'[c] = Append(sink[c], SepChunk)
          /\ pc[c] = "failed" =>
                 /\ pc'[c] = "failed" /\ sink'[c] = sink[c]
                 /\ frame'[c] = frame[c] /\ body'[c] = body[c]
                 /\ mu'[camOf[c]].writer # c]_vars

\* The write of the trailing CRLF failed: the server returned with the
\* header and the payload of the part written and no flush.
C14_Witness ==
    \E c \in Clients :
        /\ pc[c] = "failed" /\ ~ctxDone[c]
        /\ Len(sink[c]) = 2 /\ sink[c][2].kind = "data"

\* C15: a handler whose ResponseWriter is no http.Flusher answers with
\* status 500 and a plain-text body and returns: it never enters a loop,
\* writes no part, holds no frame and no fetched body, and when no client
\* of a camera can flush the readIndex of its cache stays where it was.
C15_NoStreamWithoutFlusher ==
    /\ \A c \in Clients :
          ~flusher[c] =>
              /\ pc[c] \in {"start", "unsupported"}
              /\ pc[c] = "start" => sink[c] = <<>>
              /\ pc[c] = "unsupported" =>
                     /\ Len(sink[c]) = 1
                     /\ sink[c][1].kind = "error"
                     /\ sink[c][1].status = 500
                     /\ sink[c][1].contentType = "text/plain; charset=utf-8"
              /\ frame[c] = Nil /\ body[c] = EmptyBody
    /\ \A cam \in Cameras :
          (\A c \in ClientsOf(cam) : ~flusher[c]) =>
              caches[cam].readIndex = 0

\* Both handlers answered 500 and returned while the Fetcher filled the
\* cache.
C15_Witness ==
    \E c, d \in Clients :
        /\ c # d
        /\ pc[c] = "unsupported" /\ pc[d] = "unsupported"
        /\ now[camOf[c]] >= 2

\* C16: isValidJPEG returns true for a buffer exactly when the buffer has at
\* least 1000 bytes, begins with FF D8 and ends with FF D9, and returns
\* false for every other buffer, the empty one and those of 1 to 9 bytes
\* included.
C16_ValidatorIff ==
    vret # "none" =>
        /\ vret \in {"true", "false"}
        /\ (vret = "true") <=>
               /\ BodyLen(vdata) >= 1000
               /\ ByteAt(vdata, 0) = 255
               /\ ByteAt(vdata, 1) = 216
               /\ ByteAt(vdata, BodyLen(vdata) - 2) = 255
               /\ ByteAt(vdata, BodyLen(vdata) - 1) = 217
        /\ BodyLen(vdata) < 10 => vret = "false"

\* The call returned true for a buffer of exactly 1000 bytes.
C16_Witness == vret = "true" /\ BodyLen(vdata) = 1000

\* The payloads in a client's sink.
Payloads(c) ==
    {sink[c][i].data : i \in {j \in DOMAIN sink[c] : sink[c][j].kind = "data"}}

\* C17 (as claimed): in a loop that streams without the cache, the clients
\* are only ever sent bodies that pass isValidJPEG, an iteration whose
\* fetch failed or whose body the validator rejects has written nothing,
\* and no cache is read or written.
C17_DirectEmitsOnlyValid ==
    /\ \A c \in Clients :
          /\ \A b \in Payloads(c) : isValidJPEG(b)
          /\ pc[c] \in {"dgot", "dheader", "ddata", "dsep", "dsleep"} =>
                 isValidJPEG(body[c])
    /\ \A cam \in Cameras \ cams :
          caches[cam] = newCameraCache(caches[cam].size)

\* C18 (as claimed): once a handler or a Fetcher has computed its interval,
\* the FPS value it computed it from lies in 1..30, the interval is a
\* positive number of milliseconds, and the computation did not panic.
C18_FPSInRange ==
    /\ \A c \in Clients :
          pc[c] # "start" =>
              /\ pc[c] # "panic"
              /\ cfg.FPS \in 1..30
              /\ FrameInterval(cfg.FPS) > 0
    /\ \A cam \in cams :
          fpc[cam] # "start" =>
              /\ fpc[cam] # "panic"
              /\ cfg.FetchFPS \in 1..30
              /\ FrameInterval(cfg.FetchFPS) > 0

\* C19: a getNextFrame call returns while its caller holds the cache lock
\* exclusively; with readIndex = writeIndex it returns the slot at
\* (writeIndex - 1 + N) mod N, which is what getLatestFrame returns, and
\* leaves readIndex; otherwise it returns the slot at readIndex and sets
\* readIndex to (readIndex + 1) mod N; it changes neither writeIndex nor a
\* slot, and releases the lock.
C19_GetNextFrameRule ==
    [][\A c \in Clients :
          GetNextReturns(c) =>
              LET cam == camOf[c]
                  old == caches[cam]
                  new == caches'[cam]
                  N == old.size
              IN  /\ mu[cam] = [writer |-> c, readers |-> {}]
                  /\ fpc[cam] # "locked" /\ ppc[cam] # "rlocked"
                  /\ \A d \in Clients \ {c} : pc[d] # "locked"
                  /\ IF old.readIndex = old.writeIndex
                     THEN /\ frame'[c] =
                                old.frames[(old.writeIndex - 1 + N) % N]
                          /\ frame'[c] = GetLatestFrame(old)
                          /\ new.readIndex = old.readIndex
                     ELSE /\ frame'[c] = old.frames[old.readIndex]
                          /\ new.readIndex = (old.readIndex + 1) % N
                  /\ new.writeIndex = old.writeIndex
                  /\ new.frames = old.frames
                  /\ new.size = old.size
                  /\ mu'[cam] = Unlocked]_vars

\* A server holds the frame it also obtained in its last iteration, from a
\* cache of two or more slots whose readIndex stands at writeIndex: the
\* caught-up branch returned it.
C19_Witness ==
    \E c \in Clients :
        /\ pc[c] = "got" /\ frame[c] # Nil
        /\ frame[c].timestamp = lastTs[c]
        /\ caches[camOf[c]].size >= 2
        /\ caches[camOf[c]].readIndex = caches[camOf[c]].writeIndex

\* C20: every step leaves the writeIndex of a cache or sets it to
\* (writeIndex + 1) mod N; the step that completes a successful fetch does
\* the second, stores the new frame, whose body passed the validator, in
\* the slot at the old writeIndex, and counts as one more write; every other
\* step (a read, a fetch that fails, a disconnect, a failed write to a
\* client) leaves writeIndex and the slots; so writeIndex is the number of
\* successful fetches mod N.
C20_WriteIndexSteps ==
    /\ [][\A cam \in Cameras :
            LET old == caches[cam]
                new == caches'[cam]
                N == old.size
            IN  /\ new.writeIndex \in
                       {old.writeIndex, (old.writeIndex + 1) % N}
                /\ IF fpc[cam] = "locked" /\ fpc'[cam] = "select"
                   THEN /\ new.writeIndex = (old.writeIndex + 1) % N
                        /\ new.frames[old.writeIndex] =
                               Frame(now'[cam], fbody[cam])
                        /\ isValidJPEG(fbody[cam])
                        /\ Len(written'[cam]) = Len(written[cam]) + 1
                   ELSE /\ new.writeIndex = old.writeIndex
                        /\ new.frames = old.frames
                        /\ written'[cam] = written[cam]]_vars
    /\ [](\A cam \in Cameras :
             caches[cam].writeIndex = Len(written[cam]) % caches[cam].size)

\* Three fetches succeeded on a cache of two slots, with fetches that
\* failed and a server that returned on a failed write in between:
\* writeIndex went 0, 1, 0, 1.
C20_Witness ==
    \E cam \in Cameras :
        /\ caches[cam].size = 2
        /\ Len(written[cam]) = 3
        /\ caches[cam].writeIndex = 1
        /\ fpc[cam] = "abandoned"
        /\ \E c \in ClientsOf(cam) : pc[c] = "failed"

\* The kinds of the chunks in a client's sink, in the order written.
Kinds(c) == [i \in DOMAIN sink[c] |-> sink[c][i].kind]

\* C21: what a Stream Server, cached or direct, has written of a part is a
\* prefix of header, payload, CRLF, flush in that order: the header has the
\* boundary "--frame", Content-Type image/jpeg and a Content-Length equal to
\* the length of the payload of the same part; the flush comes once, after
\* the CRLF; and a server that is between two parts, where the next header
\* is written, has flushed the part before.
C21_PartOrder ==
    \A c \in Clients :
        flusher[c] =>
            /\ \E n \in 0..4 :
                   Kinds(c) = SubSeq(<<"header", "data", "crlf", "flush">>, 1, n)
            /\ Len(sink[c]) >= 1 =>
                   /\ sink[c][1].boundary = "--frame"
                   /\ sink[c][1].contentType = "image/jpeg"
            /\ Len(sink[c]) >= 2 =>
                   sink[c][1].contentLength = BodyLen(sink[c][2].data)
            /\ pc[c] = "header" =>
                   /\ Len(sink[c]) = 1
                   /\ sink[c][1].contentLength = BodyLen(frame[c].data)
            /\ pc[c] = "dheader" =>
                   /\ Len(sink[c]) = 1
                   /\ sink[c][1].contentLength = BodyLen(body[c])
            /\ pc[c] \in {"data", "ddata"} => Len(sink[c]) = 2
            /\ pc[c] \in {"sep", "dsep"} => Len(sink[c]) = 3
            /\ pc[c] \in {"sleep", "dsleep"} => Len(sink[c]) = 4
            /\ pc[c] \in {"start", "select", "lock", "locked", "got",
                          "backoff", "dselect", "dfetching", "dretry",
                          "dgot", "disconnected"} =>
                   Len(sink[c]) \in {0, 4}

\* One server has written the header and the payload of a part and the
\* other has flushed a whole part and is about to write its next.
C21_Witness ==
    \E c, d \in Clients :
        /\ pc[c] = "data" /\ Len(sink[c]) = 2
        /\ pc[d] = "got" /\ frame[d] # Nil /\ Len(sink[d]) = 4

\* C22: the mutex of a cache has a writer exactly while the Fetcher is
\* between its Lock and its Unlock (the slot write) or a Stream Server is
\* inside getNextFrame, and a reader only inside getLatestFrame: a Fetcher
\* that waits for a tick, fetches or validates, and a server that checks
\* its context, backs off, writes, flushes or sleeps, holds nothing.
C22_LockOnlyInCriticalSection ==
    \A cam \in Cameras :
        /\ mu[cam].writer = "fetcher" <=> fpc[cam] = "locked"
        /\ \A c \in Clients :
               mu[cam].writer = c <=> (camOf[c] = cam /\ pc[c] = "locked")
        /\ mu[cam].writer \in {NoHolder, "fetcher"} \cup Clients
        /\ mu[cam].readers # {} <=> ppc[cam] = "rlocked"

\* A server is inside getNextFrame while the Fetcher is in its network
\* call and the other server is writing a payload.
C22_Witness ==
    \E c, d \in Clients :
        /\ pc[c] = "locked" /\ mu[camOf[c]].writer = c
        /\ fpc[camOf[c]] = "fetching"
        /\ pc[d] = "data" /\ camOf[d] = camOf[c]

\* A step of a task of camera cam: of its Fetcher or of one of its servers.
StepOf(cam) ==
    \/ fpc'[cam] # fpc[cam]
    \/ \E c \in ClientsOf(cam) : pc'[c] # pc[c]

\* C23: a step of a task of one camera (a fetch that succeeds or fails, a
\* lock acquisition, a write, a read) leaves the cache, the mutex and the
\* tasks of every other camera as they were; and a task waits only for the
\* mutex of its own camera: a Fetcher or server at its Lock can proceed
\* exactly when that mutex is free, and a server anywhere else can always
\* proceed, whatever the other camera's tasks hold or wait for.
C23_CamerasIndependent ==
    /\ [][\A a, b \in Cameras :
             (a # b /\ StepOf(a)) =>
                 /\ caches'[b] = caches[b]
                 /\ mu'[b] = mu[b]
                 /\ written'[b] = written[b]
                 /\ fpc'[b] = fpc[b]
                 /\ \A c \in ClientsOf(b) :
                        pc'[c] = pc[c] /\ frame'[c] = frame[c]]_vars
    /\ [](\A cam \in Cameras :
             fpc[cam] = "lock" =>
                 (ENABLED FetcherLock(cam) <=> CanLock(mu[cam])))
    /\ [](\A c \in Clients :
             /\ pc[c] = "lock" =>
                    (ENABLED ServerLock(c) <=> CanLock(mu[camOf[c]]))
             /\ pc[c] # "lock" => ENABLED Server(c))

\* The fetch of "rua" has not returned and "rua" has no frame yet, its
\* server is inside getNextFrame with the mutex of "rua", and meanwhile
\* "piscina" stored two frames, served one and its server is at its Lock.
C23_Witness ==
    /\ now["rua"] = 0 /\ fpc["rua"] = "fetching"
    /\ pc["c1"] = "locked" /\ mu["rua"].writer = "c1"
    /\ now["piscina"] >= 2 /\ lastTs["c2"] >= 1
    /\ pc["c2"] = "lock" /\ CanLock(mu["piscina"])

\* C24: the Fetchers of all cameras read the one cancellation of the
\* registry: once it is signalled it stays signalled and every Fetcher
\* eventually returns; a Fetcher that returned stays so and its cache is
\* not written again; and a step in which a client disconnects leaves the
\* cancellation as it was.
C24_SharedCancellation ==
    /\ \A cam \in Cameras : fmDone ~> (cam \in cams => fpc[cam] = "stopped")
    /\ [][fmDone => fmDone']_vars
    /\ [][\A cam \in Cameras :
             fpc[cam] = "stopped" =>
                 /\ fpc'[cam] = "stopped"
                 /\ caches'[cam] = caches[cam]
                 /\ written'[cam] = written[cam]]_vars
    /\ [][ctxDone' # ctxDone => fmDone' = fmDone]_vars

\* After the cancellation both Fetchers have returned, one of them with a
\* tick still waiting in its channel and frames in its cache, and a client
\* has disconnected.
C24_Witness ==
    /\ fmDone
    /\ \A cam \in Cameras : cam \in cams /\ fpc[cam] = "stopped"
    /\ \E cam \in Cameras : tickC[cam] /\ now[cam] >= 1
    /\ \E c \in Clients : ctxDone[c]

\* C25: a frame is as it was stored for as long as anyone holds it: every
\* frame in a slot and every frame a server obtained is, byte for byte, the
\* frame the Fetcher stored at that time, whatever was stored since; and
\* the part a server is writing has the header of the frame it obtained,
\* with that frame's length, and that frame's payload.
C25_FrameNeverChanged ==
    \A c \in Clients :
        LET cam == camOf[c]
        IN /\ \A f \in (Slots(caches[cam]) \cup {frame[c]}) \ {Nil} :
                  /\ f.timestamp \in 1..Len(written[cam])
                  /\ f = written[cam][f.timestamp]
           /\ pc[c] \in {"header", "data", "sep", "sleep"} =>
                  /\ sink[c][1] = HeaderChunk(frame[c])
                  /\ sink[c][1].contentLength = BodyLen(frame[c].data)
           /\ pc[c] \in {"data", "sep", "sleep"} =>
                  sink[c][2].data = frame[c].data
           /\ Len(sink[c]) >= 2 =>
                  sink[c][1].contentLength = BodyLen(sink[c][2].data)

\* A server has written the header of the frame it obtained and, before it
\* writes the payload, the Fetcher has overwritten the slot the frame came
\* from with a frame of another length.
C25_Witness ==
    \E c \in Clients :
        LET cache == caches[camOf[c]]
            slot == GoMod(frame[c].timestamp - 1, cache.size)
        IN /\ frame[c] # Nil
           /\ pc[c] = "header"
           /\ cache.frames[slot] # frame[c]
           /\ BodyLen(cache.frames[slot].data) # BodyLen(frame[c].data)

\* A step in which getNextFrame returns to server c through the branch
\* that advances readIndex.
AdvancingReturn(c) ==
    /\ GetNextReturns(c)
    /\ caches[camOf[c]].readIndex # caches[camOf[c]].writeIndex

\* C26: for each cache the calls of getNextFrame that advanced readIndex
\* are never more than the frames stored, and a call that advances returns
\* a frame, never an empty slot.
C26_AdvancesWithinWrites ==
    /\ [](\A cam \in Cameras : advances[cam] <= Len(written[cam]))
    /\ [][\A c \in Clients : AdvancingReturn(c) => frame'[c] # Nil]_vars

\* The readers have advanced as often as the Fetcher has written, the
\* writer having gone around the ring, and a reader then finds itself
\* caught up.
C26_Witness ==
    \E cam \in Cameras :
        /\ caches[cam].size >= 2
        /\ Len(written[cam]) > caches[cam].size
        /\ advances[cam] = Len(written[cam])
        /\ caches[cam].readIndex = caches[cam].writeIndex

\* C27: a call of getNextFrame that advances readIndex returns a frame that
\* no call on that cache, by any server and through either branch, has
\* returned before; so the advancing branch returns a frame at most once,
\* and a frame that is returned again comes from the caught-up branch.
C27_AdvanceReturnsOnce ==
    [][\A c \in Clients :
          AdvancingReturn(c) =>
              /\ frame'[c] # Nil
              /\ frame'[c].timestamp \notin delivered[camOf[c]]
              /\ delivered'[camOf[c]] =
                     delivered[camOf[c]] \cup {frame'[c].timestamp}]_vars

\* The writer has lapped the read cursor, the advancing branch has been
\* taken since, and a server holds, from the caught-up branch, a frame the
\* other server was given before.
C27_Witness ==
    \E c, d \in Clients :
        LET cam == camOf[c]
        IN /\ c # d /\ camOf[d] = cam
           /\ Len(written[cam]) > caches[cam].size + 1
           /\ advances[cam] >= 1
           /\ pc[c] = "got" /\ frame[c] # Nil
           /\ caches[cam].readIndex = caches[cam].writeIndex
           /\ lastTs[d] = frame[c].timestamp
           /\ advances[cam] < Len(written[cam])

====
